---- MODULE Spec2Model ----
(***************************************************************************)
(* uFAT block cache, BPB parser and FAT decoder (src/ufat.c) as a state    *)
(* machine.  Every public call is one atomic action: the code is single-   *)
(* threaded and synchronous.  A device call either succeeds or fails and   *)
(* leaves the medium as it was; which one is an input of the action.       *)
(***************************************************************************)
EXTENDS Integers, Sequences, FiniteSets, TLC

\* ------------------------------------------------------------------ bounds
\* Slot count ceiling of the cache (a build-time tunable of the header).
UFAT_CACHE_MAX_BLOCKS == 2
\* The device's modelled blocks are 0, 10, 20, ..., 10 * MaxBlk.
MaxBlk == 3
\* Block contents are constant-fill patterns numbered 0..MaxFill.
MaxFill == 1
\* API calls made on a mounted volume in one run.
MaxOps == 4
\* Device calls that fail in one run.
MaxFail == 1
\* Bits of an unsigned word.  TLC integers are 32-bit signed, so the
\* 32-bit unsigned words of the code are modelled with fewer bits.
WordBits == 16

\* ------------------------------------------------------- program constants
UFAT_OK == 0
UFAT_ERR_IO == 1
UFAT_ERR_BLOCK_SIZE == 2
UFAT_ERR_INVALID_BPB == 3
UFAT_ERR_BLOCK_ALIGNMENT == 4
UFAT_ERR_INVALID_CLUSTER == 5
UFAT_DIRENT_SIZE == 32
UFAT_CACHE_BYTES == 8192
UFAT_CLUSTER_MASK == 268435455
UFAT_CLUSTER_EOC == 268435448
UFAT_CLUSTER_BAD == 268435440
\* unsigned int / uint32_t arithmetic is modulo 2^WordBits
UINT == 2 ^ WordBits

U32(x) == x % UINT

Pow2(n) == 2 ^ n

Shr(x, n) == x \div Pow2(n)

Shl32(x, n) == U32(x * Pow2(n))

\* ------------------------------------------------------------- the medium
DevBlocks == {10 * k : k \in 0 .. MaxBlk}

Fills == 0 .. MaxFill

\* The byte a fill pattern repeats: 0x00, 0xFF, 0xFE, ...
FillByte(c) == (256 - c) % 256

\* Boot sector images, as the fields parse_bpb reads from them.  A block whose
\* content is image k is written -k; a block filled with pattern c is written c.
BootImages ==
  << \* 1: FAT16, two FATs of 16 sectors at sector 10
     [bytes_per_sector |-> 512, sectors_per_cluster |-> 4,
      reserved_sector_count |-> 10, number_of_fats |-> 2, root_entries |-> 512,
      total16 |-> 16434, spf16 |-> 16, total32 |-> 0, spf32 |-> 0,
      root_cluster |-> 0, signature |-> 43605],
     \* 2: FAT32 (no fixed root directory)
     [bytes_per_sector |-> 512, sectors_per_cluster |-> 1,
      reserved_sector_count |-> 10, number_of_fats |-> 2, root_entries |-> 0,
      total16 |-> 0, spf16 |-> 0, total32 |-> 2042, spf32 |-> 16,
      root_cluster |-> 2, signature |-> 43605],
     \* 3: FAT12 (fewer than 4085 clusters), one FAT
     [bytes_per_sector |-> 512, sectors_per_cluster |-> 4,
      reserved_sector_count |-> 10, number_of_fats |-> 1, root_entries |-> 512,
      total16 |-> 458, spf16 |-> 16, total32 |-> 0, spf32 |-> 0,
      root_cluster |-> 0, signature |-> 43605],
     \* 4: image 1 with byte 0x1FE cleared
     [bytes_per_sector |-> 512, sectors_per_cluster |-> 4,
      reserved_sector_count |-> 10, number_of_fats |-> 2, root_entries |-> 512,
      total16 |-> 16434, spf16 |-> 16, total32 |-> 0, spf32 |-> 0,
      root_cluster |-> 0, signature |-> 43520],
     \* 5: image 1 with FATs of 8 sectors, fewer entries than clusters
     [bytes_per_sector |-> 512, sectors_per_cluster |-> 4,
      reserved_sector_count |-> 10, number_of_fats |-> 2, root_entries |-> 512,
      total16 |-> 16434, spf16 |-> 8, total32 |-> 0, spf32 |-> 0,
      root_cluster |-> 0, signature |-> 43605] >>

\* The images ufat_open is tried on.
ImageIds == 1 .. 4

\* The images of the volumes whose FAT is read entry by entry.
FatImageIds == {1, 2, 5}

IsBoot(c) == c < 0

\* A block written MarkBase + m is zero but for the four bytes at MarkOff,
\* which hold Marks[m] in little-endian order: one FAT32 entry, or two FAT16
\* entries.  A 32-bit value is kept as its top four bits and its low 28 bits.
MarkBase == 1000

MarkOff == 20

Marks ==
  << [hi |-> 15, lo |-> 43981],      \* 0xF000ABCD
     [hi |-> 0, lo |-> 43981],       \* 0x0000ABCD
     [hi |-> 15, lo |-> 268435448],  \* 0xFFFFFFF8
     [hi |-> 0, lo |-> 268435447],   \* 0x0FFFFFF7
     [hi |-> 15, lo |-> 268435440],  \* 0xFFFFFFF0
     [hi |-> 0, lo |-> 268435439],   \* 0x0FFFFFEF
     [hi |-> 0, lo |-> 268374580] >> \* 0x0FFF1234

IsMarked(c) == c >= MarkBase

\* The four bytes a 32-bit value is stored as.
Le32(x) ==
  << x.lo % 256, (x.lo \div 256) % 256, (x.lo \div 65536) % 256,
     (x.lo \div 16777216) + 16 * x.hi >>

\* The byte at offset off of a block with content c.  Of a boot sector only
\* the BPB fields are modelled.
Byte(c, off) ==
  IF IsBoot(c) THEN 0
  ELSE IF IsMarked(c)
    THEN IF off >= MarkOff /\ off < MarkOff + 4
           THEN Le32(Marks[c - MarkBase])[off - MarkOff + 1] ELSE 0
  ELSE FillByte(c)

\* The device's log2_block_size attributes tried at mount.
BlockSizes == {9, 14}

\* ------------------------------------------------------------- log2_exact
RECURSIVE Log2Loop(_, _)
Log2Loop(e, count) ==
  IF e > 1
    THEN IF e % 2 = 1 THEN [ret |-> -1, log2 |-> 0]
                      ELSE Log2Loop(e \div 2, count + 1)
    ELSE [ret |-> 0, log2 |-> count]

log2_exact(e) == IF e = 0 THEN [ret |-> -1, log2 |-> 0] ELSE Log2Loop(e, 0)

\* -------------------------------------------------------------- parse_bpb
ZeroBpb ==
  [type |-> "NONE", log2_blocks_per_cluster |-> 0, fat_start |-> 0,
   fat_size |-> 0, fat_count |-> 0, root_size |-> 0, root_start |-> 0,
   cluster_start |-> 0, root_cluster |-> 0, num_clusters |-> 0]

\* The block-size independent values and the filesystem type (lines 209-231).
BpbFinish(ufb, img, total_logical_sectors, sectors_per_fat, root_sectors, log2_spc) ==
  LET num_clusters ==
        U32(Shr(U32(total_logical_sectors - img.reserved_sector_count
                    - U32(sectors_per_fat * img.number_of_fats)
                    - root_sectors),
                log2_spc) + 2)
      root_start == ufb.fat_start + ufb.fat_size * img.number_of_fats
      type == IF root_sectors = 0 THEN "FAT32"
              ELSE IF num_clusters < 4085 THEN "FAT12" ELSE "FAT16"
  IN  [ufb EXCEPT !.fat_count = img.number_of_fats,
                  !.num_clusters = num_clusters,
                  !.root_cluster = IF root_sectors = 0
                                     THEN img.root_cluster % (UFAT_CLUSTER_MASK + 1)
                                     ELSE 0,
                  !.root_start = root_start,
                  !.cluster_start = root_start + ufb.root_size,
                  !.type = type]

\* Line 160 divides by bytes_per_sector before any check: with a zero there
\* the behaviour is undefined, and the call either traps or goes on with some
\* quotient, which it does not use before log2_exact rejects the zero.
DivTraps(img) == img.bytes_per_sector = 0

\* What a caller sees of a call that trapped.
Trapped == -99

parse_bpb(log2_bytes_per_block, ufb0, img) ==
  LET bytes_per_sector == img.bytes_per_sector
      root_sectors ==
        (img.root_entries * UFAT_DIRENT_SIZE + bytes_per_sector - 1)
          \div bytes_per_sector
      total_logical_sectors ==
        IF img.total16 = 0 THEN img.total32 ELSE img.total16
      sectors_per_fat == IF img.spf16 = 0 THEN img.spf32 ELSE img.spf16
      lbs == log2_exact(bytes_per_sector)
      lsc == log2_exact(img.sectors_per_cluster)
      Fail(e, ufb) == [ret |-> -e, bpb |-> ufb]
  IN
  IF log2_bytes_per_block < 9 THEN Fail(UFAT_ERR_BLOCK_SIZE, ufb0)
  ELSE IF lbs.ret < 0 \/ lsc.ret < 0 THEN Fail(UFAT_ERR_INVALID_BPB, ufb0)
  ELSE IF img.signature # 43605 THEN Fail(UFAT_ERR_INVALID_BPB, ufb0)
  ELSE
    IF log2_bytes_per_block > lbs.log2
      THEN
        LET shift == log2_bytes_per_block - lbs.log2
            ufb1 == [ufb0 EXCEPT !.log2_blocks_per_cluster = lsc.log2 - shift]
            ufb2 == [ufb1 EXCEPT
                       !.fat_start = Shr(img.reserved_sector_count, shift),
                       !.fat_size = Shr(sectors_per_fat, shift),
                       !.root_size = Shr(root_sectors, shift)]
        IN  IF lsc.log2 < shift THEN Fail(UFAT_ERR_BLOCK_ALIGNMENT, ufb0)
            ELSE IF \/ img.reserved_sector_count % Pow2(shift) # 0
                    \/ sectors_per_fat % Pow2(shift) # 0
                    \/ root_sectors % Pow2(shift) # 0
              THEN Fail(UFAT_ERR_BLOCK_ALIGNMENT, ufb1)
            ELSE IF img.number_of_fats = 0
              THEN Fail(UFAT_ERR_INVALID_BPB, ufb2)
            ELSE [ret |-> 0,
                  bpb |-> BpbFinish(ufb2, img, total_logical_sectors,
                                    sectors_per_fat, root_sectors, lsc.log2)]
      ELSE
        LET shift == lbs.log2 - log2_bytes_per_block
            ufb2 == [ufb0 EXCEPT
                       !.log2_blocks_per_cluster = lsc.log2 + shift,
                       !.fat_start = Shl32(img.reserved_sector_count, shift),
                       !.fat_size = Shl32(sectors_per_fat, shift),
                       !.root_size = Shl32(root_sectors, shift)]
        IN  IF img.number_of_fats = 0
              THEN Fail(UFAT_ERR_INVALID_BPB, ufb2)
            ELSE [ret |-> 0,
                  bpb |-> BpbFinish(ufb2, img, total_logical_sectors,
                                    sectors_per_fat, root_sectors, lsc.log2)]

\* ------------------------------------------------------------ the device
\* A world is the volume, the medium, the device calls made so far by the
\* running handler (io), the results the device will give to the next calls
\* (orc; success once it is used up) and the history counters (g).
\* A handler's result is a record of the world it ends in and its return value.
DevErrs == {-UFAT_ERR_IO, -9}

DevRes(w, blk) ==
  IF blk \notin DevBlocks THEN -UFAT_ERR_IO
  ELSE IF w.orc = <<>> THEN 0 ELSE Head(w.orc)

DevNext(w) == IF w.orc = <<>> THEN <<>> ELSE Tail(w.orc)

DevWritten(w, blk, data, k, res) ==
  [w |-> [w EXCEPT !.orc = DevNext(w),
                   !.io = Append(@, [op |-> "write", blk |-> blk,
                                     data |-> data, res |-> res, k |-> k]),
                   !.dev = IF res = 0 THEN [@ EXCEPT ![blk] = data] ELSE @],
   ret |-> res]

\* dev->write(dev, blk, 1, data); k numbers the call site: 0 the write of
\* line 33, i the write of line 50 in round i of the mirror loop.
DevWrite(w, blk, data, k) == DevWritten(w, blk, data, k, DevRes(w, blk))

DevReadGot(w, blk, res, got) ==
  [w |-> [w EXCEPT !.orc = DevNext(w),
                   !.io = Append(@, [op |-> "read", blk |-> blk,
                                     data |-> got, res |-> res, k |-> 0])],
   ret |-> res, data |-> got]

\* dev->read(dev, blk, 1, buf): the content on success.
DevRead(w, blk) ==
  DevReadGot(w, blk, DevRes(w, blk),
             IF DevRes(w, blk) = 0 THEN w.dev[blk] ELSE 0)

\* ------------------------------------------------------------ cache_flush
Present(d) == "PRESENT" \in d.flags

Dirty(d) == "DIRTY" \in d.flags

StatWrite(w) ==
  [w EXCEPT !.uf.stat.write = U32(@ + 1), !.uf.stat.write_blocks = U32(@ + 1)]

\* The block the mirror write of round i goes to (line 50); b is the loop's
\* running block number, which the call does not use.
MirrorTarget(d, b) == d.index

\* The loop of lines 48-55 from round i on.
RECURSIVE MirrorLoop(_, _, _, _)
MirrorLoop(w, cache_index, i, b) ==
  IF i < w.uf.bpb.fat_count
    THEN MirrorLoop(
           StatWrite(DevWrite(w, MirrorTarget(w.uf.cache_desc[cache_index],
                                              b + w.uf.bpb.fat_size),
                              w.uf.cache_data[cache_index], i).w),
           cache_index, i + 1, b + w.uf.bpb.fat_size)
    ELSE w

InFat(bpb, index) ==
  index >= bpb.fat_start /\ index < bpb.fat_start + bpb.fat_size

\* Lines 40-56.
Mirror(w, cache_index) ==
  IF InFat(w.uf.bpb, w.uf.cache_desc[cache_index].index)
    THEN MirrorLoop(w, cache_index, 1, w.uf.cache_desc[cache_index].index)
    ELSE w

ClearDirty(w, cache_index) ==
  [w EXCEPT !.uf.cache_desc[cache_index].flags = @ \ {"DIRTY"}]

\* A flush that mirrors whatever the write of line 33 returned.
FlushWrittenMirrorsAnyway(r, cache_index) ==
  IF r.ret < 0 THEN [w |-> Mirror(r.w, cache_index), ret |-> -UFAT_ERR_IO]
  ELSE [w |-> ClearDirty(Mirror(StatWrite(r.w), cache_index), cache_index),
        ret |-> 0]

\* Lines 33-59, given the result r of the write of line 33.
FlushWritten(r, cache_index) ==
  IF r.ret < 0 THEN [w |-> r.w, ret |-> -UFAT_ERR_IO]
  ELSE [w |-> ClearDirty(Mirror(StatWrite(r.w), cache_index), cache_index),
        ret |-> 0]

cache_flush(w, cache_index) ==
  IF ~Dirty(w.uf.cache_desc[cache_index]) \/ ~Present(w.uf.cache_desc[cache_index])
    THEN [w |-> w, ret |-> 0]
    ELSE FlushWritten(DevWrite(w, w.uf.cache_desc[cache_index].index,
                               w.uf.cache_data[cache_index], 0),
                      cache_index)

\* -------------------------------------------------------- ufat_cache_open
\* The age computed as a signed difference.
AgeSigned(next_seq, seq) == next_seq - seq

\* age = uf->next_seq - d->seq, in unsigned arithmetic (line 78).
Age(next_seq, seq) == U32(next_seq - seq)

\* A hit test that passes over slots with unwritten changes.
IsHitCleanOnly(d, blk_index) == Present(d) /\ ~Dirty(d) /\ d.index = blk_index

\* The hit test of lines 80-81.
IsHit(d, blk_index) == Present(d) /\ d.index = blk_index

\* The comparison of line 90 turned round.
Newer(oldest, age, oldest_age) == oldest < 0 \/ age < oldest_age

\* Whether slot i replaces the oldest found so far (line 90).
Older(oldest, age, oldest_age) == oldest < 0 \/ age > oldest_age

\* The scan of lines 76-94 from slot i on: the slot that hit (or -1), and the
\* free and oldest slots found when none did.
RECURSIVE ScanCache(_, _, _, _, _, _)
ScanCache(uf, blk_index, i, oldest, free, oldest_age) ==
  IF i >= uf.cache_size
    THEN [hit |-> -1, oldest |-> oldest, free |-> free]
  ELSE IF IsHit(uf.cache_desc[i], blk_index)
    THEN [hit |-> i, oldest |-> oldest, free |-> free]
  ELSE IF Older(oldest, Age(uf.next_seq, uf.cache_desc[i].seq), oldest_age)
    THEN ScanCache(uf, blk_index, i + 1, i,
                   IF ~Present(uf.cache_desc[i]) THEN i ELSE free,
                   Age(uf.next_seq, uf.cache_desc[i].seq))
    ELSE ScanCache(uf, blk_index, i + 1, oldest,
                   IF ~Present(uf.cache_desc[i]) THEN i ELSE free,
                   oldest_age)

\* A load that leaves the slot's index as it was.
SlotLoadedKeepsIndex(d, blk_index, seq) ==
  [index |-> d.index, seq |-> seq, flags |-> {"PRESENT"}]

\* The descriptor of a slot a block was read into (lines 115-117).
SlotLoaded(d, blk_index, seq) ==
  [index |-> blk_index, seq |-> seq, flags |-> {"PRESENT"}]

\* A read-in that leaves the slot as it was when the read fails.
ReadInGotKeepsSlot(r, blk_index, i) ==
  IF r.ret < 0
    THEN [w |-> r.w, ret |-> r.ret]
    ELSE [w |-> [r.w EXCEPT
                   !.uf.cache_data[i] = r.data,
                   !.uf.cache_desc[i] = SlotLoaded(@, blk_index, r.w.uf.next_seq),
                   !.uf.next_seq = U32(@ + 1),
                   !.uf.stat.cache_miss = U32(@ + 1),
                   !.uf.stat.read = U32(@ + 1),
                   !.uf.stat.read_blocks = U32(@ + 1)],
          ret |-> i]

\* Lines 109-124, given the result r of the read of line 108 into slot i.
\* A failed read leaves the buffer of the (now free) slot as it was.
ReadInGot(r, blk_index, i) ==
  IF r.ret < 0
    THEN [w |-> [r.w EXCEPT !.uf.cache_desc[i].flags = {}], ret |-> r.ret]
    ELSE [w |-> [r.w EXCEPT
                   !.uf.cache_data[i] = r.data,
                   !.uf.cache_desc[i] = SlotLoaded(@, blk_index, r.w.uf.next_seq),
                   !.uf.next_seq = U32(@ + 1),
                   !.uf.stat.cache_miss = U32(@ + 1),
                   !.uf.stat.read = U32(@ + 1),
                   !.uf.stat.read_blocks = U32(@ + 1)],
          ret |-> i]

ReadIn(w, blk_index, i) == ReadInGot(DevRead(w, blk_index), blk_index, i)

\* A hit that sets the slot's flags as a load does.
CacheHitCleans(w, i) ==
  [w |-> [w EXCEPT !.uf.cache_desc[i].seq = w.uf.next_seq,
                   !.uf.cache_desc[i].flags = {"PRESENT"},
                   !.uf.next_seq = U32(@ + 1),
                   !.uf.stat.cache_hit = U32(@ + 1)],
   ret |-> i]

\* A hit that does not refresh the slot's seq.
CacheHitStale(w, i) ==
  [w |-> [w EXCEPT !.uf.next_seq = U32(@ + 1),
                   !.uf.stat.cache_hit = U32(@ + 1)],
   ret |-> i]

\* A hit that is not counted.
CacheHitUncounted(w, i) ==
  [w |-> [w EXCEPT !.uf.cache_desc[i].seq = w.uf.next_seq,
                   !.uf.next_seq = U32(@ + 1)],
   ret |-> i]

\* Lines 82-84: the scan found the block in slot i.
CacheHit(w, i) ==
  [w |-> [w EXCEPT !.uf.cache_desc[i].seq = w.uf.next_seq,
                   !.uf.next_seq = U32(@ + 1),
                   !.uf.stat.cache_hit = U32(@ + 1)],
   ret |-> i]

\* An eviction that does not look at the result of the flush.
EvictAnyway(f, blk_index, oldest) == ReadIn(f.w, blk_index, oldest)

\* Lines 100-105, given the result f of flushing the oldest slot.
Evict(f, blk_index, oldest) ==
  IF f.ret < 0 THEN f ELSE ReadIn(f.w, blk_index, oldest)

\* Lines 82-124, given the result s of the scan.
CacheOpenScanned(w, blk_index, s) ==
  IF s.hit >= 0 THEN CacheHit(w, s.hit)
  ELSE IF s.free >= 0 THEN ReadIn(w, blk_index, s.free)
  ELSE Evict(cache_flush(w, s.oldest), blk_index, s.oldest)

CacheOpenBody(w, blk_index) ==
  CacheOpenScanned(w, blk_index, ScanCache(w.uf, blk_index, 0, -1, -1, 0))

\* The history kept beside ufat_cache_open, from the world w it was called in
\* and its return value: the calls made and the calls that returned a slot;
\* for each slot the number of the call that last returned it; how far the
\* calls so far, all successful, follow Scenario (-1 once they do not); and
\* of the last call its block, its return value, whether it missed with every
\* slot in use, and whether two cached slots were then in one order by seq
\* and in the other by last use.
Scenario == <<0, 10, 20, 30>>

History(w, blk_index, ret) ==
  [opens |-> w.g.opens + 1,
   opens_ok |-> IF ret >= 0 THEN w.g.opens_ok + 1 ELSE w.g.opens_ok,
   touch |-> IF ret >= 0 THEN [w.g.touch EXCEPT ![ret] = w.g.opens_ok + 1]
                         ELSE w.g.touch,
   scen |-> IF /\ w.g.scen >= 0 /\ w.g.scen < Len(Scenario) /\ ret >= 0
                  /\ blk_index = Scenario[w.g.scen + 1]
                 THEN w.g.scen + 1 ELSE -1,
   blk |-> blk_index,
   ret |-> ret,
   full_miss |-> \A i \in 0 .. w.uf.cache_size - 1 :
                   /\ Present(w.uf.cache_desc[i])
                   /\ w.uf.cache_desc[i].index # blk_index,
   straddle |-> \E i, j \in 0 .. w.uf.cache_size - 1 :
                  /\ Present(w.uf.cache_desc[i]) /\ Present(w.uf.cache_desc[j])
                  /\ w.uf.cache_desc[i].seq > w.uf.cache_desc[j].seq
                  /\ w.g.touch[i] < w.g.touch[j]]

Counted(w, blk_index, r) ==
  [w |-> [r.w EXCEPT !.g = History(w, blk_index, r.ret)], ret |-> r.ret]

ufat_cache_open(w, blk_index) ==
  Counted(w, blk_index, CacheOpenBody(w, blk_index))

\* ---------------------------------------------------- ufat_open, read_bpb
\* Block 0 holds a boot sector image when the volume is mounted.
ImageOf(c) == BootImages[-c]

Min(a, b) == IF a < b THEN a ELSE b

ZeroStat ==
  [read |-> 0, read_blocks |-> 0, write |-> 0, write_blocks |-> 0,
   cache_hit |-> 0, cache_miss |-> 0]

Slots == 0 .. UFAT_CACHE_MAX_BLOCKS - 1

ZeroDesc == [i \in Slots |-> [index |-> 0, seq |-> 0, flags |-> {}]]

\* Lines 242-243, given the world and the result p of parse_bpb.
BpbParsed(w, p) == [w |-> [w EXCEPT !.uf.bpb = p.bpb], ret |-> p.ret]

\* Lines 239-243, given the result c of opening block 0.
ReadBpbOpened(c, l2) ==
  IF c.ret < 0 THEN c
  ELSE BpbParsed(c.w, parse_bpb(l2, c.w.uf.bpb, ImageOf(c.w.uf.cache_data[c.ret])))

read_bpb(w, l2) == ReadBpbOpened(ufat_cache_open(w, 0), l2)

\* Lines 256-262, given the cache size.
OpenSized(w, l2) ==
  IF w.uf.cache_size = 0 THEN [w |-> w, ret |-> -UFAT_ERR_BLOCK_SIZE]
  ELSE read_bpb([w EXCEPT !.uf.stat = ZeroStat, !.uf.cache_desc = ZeroDesc], l2)

ufat_open(w, l2) ==
  OpenSized([w EXCEPT !.uf.next_seq = 0,
                      !.uf.cache_size = Min(Shr(UFAT_CACHE_BYTES, l2),
                                            UFAT_CACHE_MAX_BLOCKS)], l2)

\* -------------------------------------------------- ufat_sync, ufat_close
\* Lines 273-274: the local ret after a flush that returned err.
SyncErr(err, ret) == IF err # 0 THEN err ELSE ret

\* A loop that stops at the first flush that fails.
SyncStopsOnError(err) == err = 0

\* Whether the loop of ufat_sync goes on after a flush that returned err.
SyncGoesOn(err) == TRUE

\* The loop of lines 270-275 from slot i on, and the value of its local ret.
RECURSIVE SyncLoop(_, _, _)
SyncFlushed(f, i, ret) ==
  IF SyncGoesOn(f.ret) THEN SyncLoop(f.w, i + 1, SyncErr(f.ret, ret))
  ELSE [w |-> f.w, ret |-> SyncErr(f.ret, ret)]

SyncLoop(w, i, ret) ==
  IF i < w.uf.cache_size THEN SyncFlushed(cache_flush(w, i), i, ret)
  ELSE [w |-> w, ret |-> ret]

\* Line 277: the value ufat_sync returns, given its local ret.
SyncReturn(ret) == 0

SyncDone(r) == [w |-> r.w, ret |-> SyncReturn(r.ret)]

ufat_sync(w) == SyncDone(SyncLoop(w, 0, 0))

\* ---------------------------------------------------------- ufat_read_fat
\* r16 / r32 of a cache buffer at a byte offset: little-endian.
R16(c, off) == Byte(c, off) + 256 * Byte(c, off + 1)

\* A 32-bit value is kept as its top four bits and its low 28 bits.
R32(c, off) ==
  [hi |-> Byte(c, off + 3) \div 16,
   lo |-> Byte(c, off) + 256 * Byte(c, off + 1) + 65536 * Byte(c, off + 2)
            + 16777216 * (Byte(c, off + 3) % 16)]

\* The thresholds compared with > for >=.
Decode16Above(raw) ==
  IF raw > 65528 THEN UFAT_CLUSTER_EOC
  ELSE IF raw > 65520 THEN UFAT_CLUSTER_BAD
  ELSE raw

\* Lines 330-341.
Decode16(raw) ==
  IF raw >= 65528 THEN UFAT_CLUSTER_EOC
  ELSE IF raw >= 65520 THEN UFAT_CLUSTER_BAD
  ELSE raw

\* The decoding without the mask: the top four bits count.
Decode32Unmasked(raw32) ==
  IF raw32.hi > 0 \/ raw32.lo >= 268435448 THEN UFAT_CLUSTER_EOC
  ELSE IF raw32.lo >= 268435440 THEN UFAT_CLUSTER_BAD
  ELSE raw32.lo

\* Lines 356-369: the mask drops the top four bits.
Decode32(raw32) ==
  IF raw32.lo >= 268435448 THEN UFAT_CLUSTER_EOC
  ELSE IF raw32.lo >= 268435440 THEN UFAT_CLUSTER_BAD
  ELSE raw32.lo

\* out is the caller's variable: NoOut while nothing was stored in it.
NoOut == -1

WithOut(r, out) == [w |-> r.w, ret |-> r.ret, out |-> out]

read_fat12(w, index) == [w |-> w, ret |-> -1, out |-> NoOut]

\* Lines 325-341, given the result c of the cache open.
Fat16Opened(c, r) ==
  IF c.ret < 0 THEN WithOut(c, NoOut)
  ELSE [w |-> c.w, ret |-> 0,
        out |-> Decode16(R16(c.w.uf.cache_data[c.ret], r * 2))]

read_fat16(w, l2, index) ==
  Fat16Opened(ufat_cache_open(w, w.uf.bpb.fat_start + Shr(index, l2 - 1)),
              index % Pow2(l2 - 1))

\* Lines 353-369, given the result c of the cache open.
Fat32Opened(c, r) ==
  IF c.ret < 0 THEN WithOut(c, NoOut)
  ELSE [w |-> c.w, ret |-> 0,
        out |-> Decode32(R32(c.w.uf.cache_data[c.ret], r * 4))]

read_fat32(w, l2, index) ==
  Fat32Opened(ufat_cache_open(w, w.uf.bpb.fat_start + Shr(index, l2 - 2)),
              index % Pow2(l2 - 2))

\* The range check with > for >=.
BadClusterAbove(bpb, index) == index > bpb.num_clusters

\* The range check of line 375.
BadCluster(bpb, index) == index >= bpb.num_clusters

ufat_read_fat(w, l2, index) ==
  IF BadCluster(w.uf.bpb, index)
    THEN [w |-> w, ret |-> -UFAT_ERR_INVALID_CLUSTER, out |-> NoOut]
  ELSE IF w.uf.bpb.type = "FAT12" THEN read_fat12(w, index)
  ELSE IF w.uf.bpb.type = "FAT16" THEN read_fat16(w, l2, index)
  ELSE IF w.uf.bpb.type = "FAT32" THEN read_fat32(w, l2, index)
  ELSE [w |-> w, ret |-> 0, out |-> NoOut]

\* ---------------------------------------------------------------- state
VARIABLES
  uf,              \* struct ufat: cache_size, cache_desc, cache_data, next_seq, stat, bpb
  dev,             \* the medium: block -> content
  log2_block_size, \* the device's attribute
  phase,           \* "unmounted", "mounted", "failed" (ufat_open), "closed"
  last,            \* the last call: op, arg, ret, out and its device calls
  g,               \* history: cache_open calls, successful ones, last touch
  ops,             \* calls made on the mounted volume
  fails            \* device calls the device failed

vars == <<uf, dev, log2_block_size, phase, last, g, ops, fails>>

\* The results the device gives to the next calls: a handler that makes n
\* device calls when none fails makes no more when some do, so n results, at
\* most budget of them failures.
Oracles(n, budget) ==
  {<<>>} \cup
  { [i \in 1 .. n |-> IF i \in P THEN e ELSE 0] :
      P \in {Q \in SUBSET (1 .. n) : Q # {} /\ Cardinality(Q) <= budget},
      e \in DevErrs }

\* The device calls a handler with result r made.
Calls(r) == Len(r.w.io)

World(orc) == [uf |-> uf, dev |-> dev, io |-> <<>>, orc |-> orc, g |-> g]

\* The device calls of a handler that the device failed.
Failed(io) == {k \in 1 .. Len(io) : io[k].res # 0 /\ io[k].blk \in DevBlocks}

\* The state after a handler whose result is r (w, ret and out).
Done(r, op, arg) ==
  /\ uf' = r.w.uf
  /\ dev' = r.w.dev
  /\ g' = r.w.g
  /\ last' = [op |-> op, arg |-> arg, ret |-> r.ret, out |-> r.out, io |-> r.w.io]
  /\ fails' = fails + Cardinality(Failed(r.w.io))
  /\ UNCHANGED log2_block_size

NoHistory ==
  [opens |-> 0, opens_ok |-> 0, touch |-> [i \in Slots |-> 0], scen |-> 0,
   blk |-> 0, ret |-> 0, full_miss |-> FALSE, straddle |-> FALSE]

\* Before ufat_open the struct holds whatever the caller's memory held.
GarbageDesc == [i \in Slots |-> [index |-> 0, seq |-> 7, flags |-> {"PRESENT", "DIRTY"}]]

InitFill(b) == (b \div 10) % (MaxFill + 1)

InitDev(k) == [b \in DevBlocks |-> IF b = 0 THEN -k ELSE InitFill(b)]

InitUf ==
  [cache_size |-> 0, cache_desc |-> GarbageDesc,
   cache_data |-> [i \in Slots |-> 0], next_seq |-> 7,
   stat |-> [ZeroStat EXCEPT !.read = 7], bpb |-> ZeroBpb]

NoCall == [op |-> "none", arg |-> 0, ret |-> 0, out |-> NoOut, io |-> <<>>]

Init ==
  /\ \E l2 \in BlockSizes : log2_block_size = l2
  /\ \E k \in ImageIds : dev = InitDev(k)
  /\ uf = InitUf
  /\ phase = "unmounted"
  /\ last = NoCall
  /\ g = NoHistory
  /\ ops = 0
  /\ fails = 0

\* ufat_open(uf, dev)
Open ==
  /\ phase = "unmounted"
  /\ \E orc \in Oracles(Calls(ufat_open(World(<<>>), log2_block_size)), MaxFail - fails) :
       Done(WithOut(ufat_open(World(orc), log2_block_size), NoOut), "open", 0)
  /\ phase' = IF last'.ret = 0 THEN "mounted" ELSE "failed"
  /\ UNCHANGED ops

Mounted == phase = "mounted" /\ ops < MaxOps

\* ufat_cache_open(uf, b), called directly
CacheOpen ==
  /\ Mounted
  /\ \E b \in DevBlocks :
     \E orc \in Oracles(Calls(ufat_cache_open(World(<<>>), b)), MaxFail - fails) :
       Done(WithOut(ufat_cache_open(World(orc), b), NoOut), "cache_open", b)
  /\ ops' = ops + 1
  /\ UNCHANGED phase

\* A caller writes into the buffer of a slot it opened and sets DIRTY.
MarkDirty ==
  /\ Mounted
  /\ \E i \in 0 .. uf.cache_size - 1, v \in Fills :
       /\ Present(uf.cache_desc[i])
       /\ uf' = [uf EXCEPT !.cache_data[i] = v,
                           !.cache_desc[i].flags = @ \cup {"DIRTY"}]
       /\ last' = [op |-> "mark_dirty", arg |-> i, ret |-> 0, out |-> NoOut, io |-> <<>>]
  /\ ops' = ops + 1
  /\ UNCHANGED <<dev, log2_block_size, phase, g, fails>>

\* The cluster indices ufat_read_fat is called with.
ClusterInputs ==
  {5, 1285, 2565} \cup {uf.bpb.num_clusters + d : d \in {-1, 0, 1}}

\* ufat_read_fat(uf, index, &out)
ReadFat ==
  /\ Mounted
  /\ \E index \in ClusterInputs :
     \E orc \in Oracles(Calls(ufat_read_fat(World(<<>>), log2_block_size, index)), MaxFail - fails) :
       Done(ufat_read_fat(World(orc), log2_block_size, index), "read_fat", index)
  /\ ops' = ops + 1
  /\ UNCHANGED phase

\* ufat_sync(uf)
Sync ==
  /\ Mounted
  /\ \E orc \in Oracles(Calls(ufat_sync(World(<<>>))), MaxFail - fails) :
       Done(WithOut(ufat_sync(World(orc)), NoOut), "sync", 0)
  /\ ops' = ops + 1
  /\ UNCHANGED phase

\* ufat_close(uf): ufat_sync, its result dropped
Close ==
  /\ Mounted
  /\ \E orc \in Oracles(Calls(ufat_sync(World(<<>>))), MaxFail - fails) :
       Done(WithOut(ufat_sync(World(orc)), NoOut), "close", 0)
  /\ ops' = ops + 1
  /\ phase' = "closed"

Next == Open \/ CacheOpen \/ MarkDirty \/ ReadFat \/ Sync \/ Close

Spec == Init /\ [][Next]_vars

\* ------------------------------------------- a long-running mounted volume
\* The world after a mount of image 1 with 512-byte blocks, then n calls of
\* ufat_cache_open(0): each is a hit on the slot the mount read block 0 into.
Slot0(w) == CHOOSE i \in Slots : IsHit(w.uf.cache_desc[i], 0)

AfterHits(w, n) ==
  [w EXCEPT !.uf.next_seq = U32(@ + n),
            !.uf.cache_desc[Slot0(w)].seq = U32(w.uf.next_seq + n - 1),
            !.uf.stat.cache_hit = U32(@ + n),
            !.g.opens = @ + n,
            !.g.opens_ok = @ + n,
            !.g.touch[Slot0(w)] = w.g.opens_ok + n,
            !.g.scen = -1,
            !.g.ret = Slot0(w)]

JustMounted ==
  ufat_open([uf |-> InitUf, dev |-> InitDev(1), io |-> <<>>, orc |-> <<>>,
             g |-> NoHistory], 9).w

\* The volume has been open for so long that next_seq wraps within the next
\* MaxOps calls.
InitWrap ==
  /\ log2_block_size = 9
  /\ \E lead \in 1 .. MaxOps :
       /\ uf = AfterHits(JustMounted, UINT - lead - 1).uf
       /\ g = AfterHits(JustMounted, UINT - lead - 1).g
  /\ dev = InitDev(1)
  /\ phase = "mounted"
  /\ last = [NoCall EXCEPT !.op = "cache_open"]
  /\ ops = 0
  /\ fails = 0

NextWrap == CacheOpen \/ MarkDirty \/ ReadFat \/ Sync \/ Close

SpecWrap == InitWrap /\ [][NextWrap]_vars

\* ------------------------------------------------- a volume with known FAT
\* The world after a mount of the medium d with 512-byte blocks.
MountedOn(d) ==
  ufat_open([uf |-> InitUf, dev |-> d, io |-> <<>>, orc |-> <<>>,
             g |-> NoHistory], 9).w

\* The blocks of the first FAT that the medium has.
FatBlocks == {10, 20} \cap DevBlocks

MarkedDev(k, mb, m) == [InitDev(k) EXCEPT ![mb] = MarkBase + m]

\* A FAT16 or FAT32 volume, mounted, one block of whose FAT holds a mark.
InitFat ==
  /\ log2_block_size = 9
  /\ \E k \in FatImageIds, mb \in FatBlocks, m \in 1 .. Len(Marks) :
       /\ dev = MarkedDev(k, mb, m)
       /\ uf = MountedOn(MarkedDev(k, mb, m)).uf
       /\ g = MountedOn(MarkedDev(k, mb, m)).g
  /\ phase = "mounted"
  /\ last = [NoCall EXCEPT !.op = "open"]
  /\ ops = 0
  /\ fails = 0

\* Cluster indices around the mark, in both blocks and for both entry sizes.
EntryInputs == {5, 10, 11, 1285, 2570}

\* ufat_read_fat(uf, index, &out) on that volume
ReadEntry ==
  /\ Mounted
  /\ \E index \in EntryInputs :
     \E orc \in Oracles(Calls(ufat_read_fat(World(<<>>), log2_block_size, index)), MaxFail - fails) :
       Done(ufat_read_fat(World(orc), log2_block_size, index), "read_fat", index)
  /\ ops' = ops + 1
  /\ UNCHANGED phase

NextFat == ReadEntry \/ MarkDirty

SpecFat == InitFat /\ [][NextFat]_vars

\* ------------------------------------------------ parse_bpb on boot sectors
\* Boot sectors, field by field: well-formed ones and ones that fail each
\* check of parse_bpb, alone and together.
BpbInputs ==
  [bytes_per_sector : {0, 512, 768, 1024}, sectors_per_cluster : {0, 1, 3, 4},
   reserved_sector_count : {10, 11}, number_of_fats : {0, 2},
   root_entries : {0, 16, 512}, total16 : {0, 20, 16434}, spf16 : {0, 3, 16},
   total32 : {2042}, spf32 : {16}, root_cluster : {2},
   signature : {43605, 43520}]

BpbBlockSizes == {8, 9, 10}

\* Block 0 holds the boot sector; the volume structure is still unused.
InitBpb ==
  /\ log2_block_size \in BpbBlockSizes
  /\ \E img \in BpbInputs : dev = [b \in {0} |-> img]
  /\ uf = InitUf
  /\ phase = "unmounted"
  /\ last = NoCall
  /\ g = NoHistory
  /\ ops = 0
  /\ fails = 0

\* The state after parse_bpb gave p.
BpbDone(p) ==
  /\ uf' = [uf EXCEPT !.bpb = p.bpb]
  /\ last' = [op |-> "parse_bpb", arg |-> log2_block_size, ret |-> p.ret,
              out |-> NoOut, io |-> <<>>]
  /\ phase' = IF p.ret = 0 THEN "parsed" ELSE "failed"

\* parse_bpb(dev->log2_block_size, &uf->bpb, <block 0>)
ParseBpb ==
  /\ phase = "unmounted"
  /\ \/ BpbDone(parse_bpb(log2_block_size, uf.bpb, dev[0]))
     \/ /\ DivTraps(dev[0])
        /\ last' = [op |-> "parse_bpb", arg |-> log2_block_size,
                    ret |-> Trapped, out |-> NoOut, io |-> <<>>]
        /\ phase' = "crashed"
        /\ UNCHANGED uf
  /\ UNCHANGED <<dev, log2_block_size, g, ops, fails>>

NextBpb == ParseBpb

SpecBpb == InitBpb /\ [][NextBpb]_vars

\* ================================================================ claims
Active == 0 .. uf.cache_size - 1

Live == phase \in {"mounted", "closed"}

\* The device calls of the last handler.
IO == 1 .. Len(last.io)

\* Call k of the last handler is the write of line 33 (a slot's own block).
Primary(k) == last.io[k].op = "write" /\ last.io[k].k = 0

\* Slot i held a block before this step and does not hold it after.
Dropped(i) ==
  /\ Present(uf.cache_desc[i])
  /\ \/ ~Present(uf'.cache_desc[i])
     \/ uf'.cache_desc[i].index # uf.cache_desc[i].index

\* ---------------------------------------------------------------- C1
\* C1: on a mounted volume, whatever calls were made and whichever device
\* calls failed, no two PRESENT slots hold the same block index.
C1_DistinctBlocks ==
  Live => \A i, j \in Active :
            (i # j /\ Present(uf.cache_desc[i]) /\ Present(uf.cache_desc[j]))
              => uf.cache_desc[i].index # uf.cache_desc[j].index

C1_Witness ==
  /\ phase = "mounted" /\ fails > 0 /\ g.opens >= 3
  /\ \A i \in Active : Present(uf.cache_desc[i])
  /\ \E i \in Active : Dirty(uf.cache_desc[i])

\* ---------------------------------------------------------------- C2
\* C2: a PRESENT and DIRTY slot loses its block (is reused or becomes
\* non-present) only in a call in which the device accepted a write of the
\* slot's bytes to the slot's block, and the medium then holds them; a flush
\* of a dirty slot that returns 0 leaves it PRESENT and not DIRTY with the
\* medium holding its bytes; and the medium holds every clean slot's bytes.
C2_Step ==
  \A i \in Active :
    (phase = "mounted" /\ Dirty(uf.cache_desc[i]) /\ Dropped(i))
      => /\ \E k \in 1 .. Len(last'.io) :
              last'.io[k] = [op |-> "write", blk |-> uf.cache_desc[i].index,
                             data |-> uf.cache_data[i], res |-> 0, k |-> 0]
         /\ dev'[uf.cache_desc[i].index] = uf.cache_data[i]

FlushKeeps(w, i, f) ==
  (Present(w.uf.cache_desc[i]) /\ Dirty(w.uf.cache_desc[i]) /\ f.ret = 0)
    => /\ f.w.uf.cache_desc[i].flags = {"PRESENT"}
       /\ f.w.uf.cache_desc[i].index = w.uf.cache_desc[i].index
       /\ f.w.uf.cache_data[i] = w.uf.cache_data[i]
       /\ DevRead([f.w EXCEPT !.orc = <<>>], w.uf.cache_desc[i].index).data
            = w.uf.cache_data[i]

C2_Flush ==
  Live => \A i \in Active, orc \in Oracles(uf.bpb.fat_count, MaxFail) :
            FlushKeeps(World(orc), i, cache_flush(World(orc), i))

C2_Coherent ==
  Live => \A i \in Active :
            (Present(uf.cache_desc[i]) /\ ~Dirty(uf.cache_desc[i]))
              => uf.cache_data[i] = dev[uf.cache_desc[i].index]

C2_DirtyReachesDevice == [][C2_Step]_vars /\ [](C2_Flush /\ C2_Coherent)

C2_Witness ==
  /\ phase = "mounted" /\ last.op = "cache_open" /\ last.ret >= 0
  /\ \E k \in IO : /\ Primary(k) /\ last.io[k].res = 0
                   /\ dev[last.io[k].blk] = last.io[k].data
                   /\ last.io[k].data \in Fills
  /\ \E i \in Active : Dirty(uf.cache_desc[i])

\* ---------------------------------------------------------------- C3
\* C3: ufat_sync returns the error of a flush that failed (a flush fails
\* when its own write fails, with -UFAT_ERR_IO), and 0 only when none did.
C3_SyncReturnsError ==
  last.op = "sync"
    => last.ret = IF \E k \in IO : Primary(k) /\ last.io[k].res # 0
                    THEN -UFAT_ERR_IO ELSE 0

\* ---------------------------------------------------------------- C4
\* C4: the mirror write of round k of a flush goes to the slot's block plus
\* k * fat_size, with the bytes of the slot's own write.
C4_MirrorsGoToCopies ==
  Live => \A k \in IO :
            (last.io[k].op = "write" /\ last.io[k].k >= 1)
              => /\ Primary(k - last.io[k].k)
                 /\ last.io[k].data = last.io[k - last.io[k].k].data
                 /\ last.io[k].blk = last.io[k - last.io[k].k].blk
                                       + last.io[k].k * uf.bpb.fat_size

\* ---------------------------------------------------------------- C5
\* C5 as claimed: cache_hit + cache_miss is the number of ufat_cache_open
\* calls made since (and with) the mount, failed calls included.
C5_CountsEveryCall ==
  Live => U32(uf.stat.cache_hit + uf.stat.cache_miss) = U32(g.opens)

\* C5 as amended: cache_hit + cache_miss is the number of ufat_cache_open
\* calls since (and with) the mount that returned a slot; a call that fails
\* counts as neither.
C5_CountsReturnedSlots ==
  Live => U32(uf.stat.cache_hit + uf.stat.cache_miss) = U32(g.opens_ok)

C5_Witness ==
  /\ phase = "mounted" /\ g.opens > g.opens_ok
  /\ uf.stat.cache_hit >= 1 /\ uf.stat.cache_miss >= 2
  /\ last.op = "read_fat" /\ last.ret = 0

\* ---------------------------------------------------------------- C6
\* C6: ufat_sync writes every slot that is PRESENT and DIRTY, whatever
\* happened to the slots before it; a slot whose own write the device
\* accepted is clean afterwards with its bytes on the medium; and when no
\* device call of the sync fails, no slot is DIRTY afterwards.
C6_Step ==
  (phase = "mounted" /\ last'.op \in {"sync", "close"})
    => /\ \A i \in Active :
            (Present(uf.cache_desc[i]) /\ Dirty(uf.cache_desc[i]))
              => \E k \in 1 .. Len(last'.io) :
                   /\ last'.io[k].op = "write" /\ last'.io[k].k = 0
                   /\ last'.io[k].blk = uf.cache_desc[i].index
                   /\ last'.io[k].data = uf.cache_data[i]
                   /\ last'.io[k].res = 0
                        => /\ uf'.cache_desc[i].flags = {"PRESENT"}
                           /\ uf'.cache_desc[i].index = uf.cache_desc[i].index
                           /\ uf'.cache_data[i] = uf.cache_data[i]
                           /\ dev'[uf.cache_desc[i].index] = uf.cache_data[i]
       /\ (\A k \in 1 .. Len(last'.io) : last'.io[k].res = 0)
            => \A i \in Active : ~Dirty(uf'.cache_desc[i])

C6_SyncFlushesAll == [][C6_Step]_vars

C6_Witness ==
  /\ last.op = "sync"
  /\ \E k1, k2 \in IO :
       /\ k1 < k2 /\ Primary(k1) /\ Primary(k2)
       /\ last.io[k1].res # 0 /\ last.io[k2].res = 0
       /\ dev[last.io[k2].blk] = last.io[k2].data
  /\ Cardinality({i \in Active : Dirty(uf.cache_desc[i])}) = 1

\* ---------------------------------------------------------------- C7
\* C7: a slot loses its block only when every slot held one, and it is then
\* the slot least recently returned by a successful open; with two slots,
\* opening 10, 20, 30 after the mount puts 30 where 10 was and keeps 20.
C7_Step ==
  /\ \A i \in Active :
       (phase = "mounted" /\ Dropped(i))
         => \A j \in Active : /\ Present(uf.cache_desc[j])
                              /\ g.touch[i] <= g.touch[j]
  /\ (phase = "mounted" /\ uf.cache_size = 2 /\ g.scen = 3 /\ g'.scen = 4)
       => /\ \E i \in Active : /\ IsHit(uf.cache_desc[i], 10)
                               /\ IsHit(uf'.cache_desc[i], 30)
          /\ \E j \in Active : IsHit(uf'.cache_desc[j], 20)

C7_EvictsLeastRecent == [][C7_Step]_vars

C7_Witness ==
  /\ phase = "mounted" /\ uf.cache_size = 2 /\ g.scen = 4
  /\ last.op = "cache_open" /\ last.arg = 30

\* ---------------------------------------------------------------- C8
\* C8: a ufat_cache_open(b) that returns i >= 0 returns a slot of the cache
\* that is then PRESENT with index b; its buffer is unchanged when b was
\* cached, and holds the medium's block b when it was not.
HitSlots(b) ==
  IF phase = "mounted" THEN {j \in Active : IsHit(uf.cache_desc[j], b)} ELSE {}

C8_Step ==
  (g'.opens = g.opens + 1 /\ g'.ret >= 0)
    => /\ g'.ret \in 0 .. uf'.cache_size - 1
       /\ uf'.cache_desc[g'.ret].index = g'.blk
       /\ Present(uf'.cache_desc[g'.ret])
       /\ IF HitSlots(g'.blk) # {}
            THEN /\ g'.ret \in HitSlots(g'.blk)
                 /\ uf'.cache_data[g'.ret] = uf.cache_data[g'.ret]
            ELSE uf'.cache_data[g'.ret] = dev[g'.blk]

C8_OpenReturnsBlock == [][C8_Step]_vars

C8_Witness ==
  /\ last.op = "read_fat" /\ last.ret = 0 /\ g.full_miss
  /\ \E k \in IO : Primary(k) /\ last.io[k].res = 0
  /\ uf.cache_data[g.ret] # 0

\* ---------------------------------------------------------------- C9
\* C9: when the slots in use were last returned within 2^(WordBits-1) opens
\* of each other, the slot that loses its block is the one least recently
\* returned, also when next_seq wrapped past zero between those opens.
TouchSpread ==
  LET t == {g.touch[i] : i \in Active}
  IN  (CHOOSE x \in t : \A y \in t : y <= x) - (CHOOSE x \in t : \A y \in t : x <= y)

C9_Step ==
  \A i \in Active :
    (/\ Dropped(i) /\ \A j \in Active : Present(uf.cache_desc[j])
     /\ TouchSpread < Pow2(WordBits - 1))
      => \A j \in Active : g.touch[i] <= g.touch[j]

C9_VictimAcrossWrap == [][C9_Step]_vars

C9_Witness ==
  /\ g.straddle /\ g.full_miss /\ g.ret >= 0
  /\ uf.next_seq < MaxOps

\* ---------------------------------------------------------------- C10
\* C10: ufat_read_fat with index >= num_clusters returns
\* -UFAT_ERR_INVALID_CLUSTER on a volume of any type, makes no device call
\* and changes neither the volume nor the medium.
C10_Step ==
  (/\ phase = "mounted" /\ ops' = ops + 1 /\ last'.op = "read_fat"
   /\ last'.arg >= uf.bpb.num_clusters)
    => /\ last'.ret = -UFAT_ERR_INVALID_CLUSTER
       /\ last'.io = <<>>
       /\ last'.out = NoOut
       /\ UNCHANGED <<uf, dev, g>>

C10_RejectsBadCluster == [][C10_Step]_vars

C10_Witness ==
  /\ last.op = "read_fat" /\ last.ret = -UFAT_ERR_INVALID_CLUSTER
  /\ last.arg = uf.bpb.num_clusters
  /\ uf.bpb.type = "FAT12"
  /\ \E i \in Active : Dirty(uf.cache_desc[i])

\* --------------------------------------------------------------- C11
\* The value written at 16-bit entry j of a block with content c.
Entry16(c, j) ==
  IF IsBoot(c) THEN 0
  ELSE IF IsMarked(c)
    THEN IF 2 * j = MarkOff THEN Marks[c - MarkBase].lo % 65536
         ELSE IF 2 * j = MarkOff + 2
           THEN Marks[c - MarkBase].lo \div 65536 + 4096 * Marks[c - MarkBase].hi
         ELSE 0
  ELSE 257 * FillByte(c)

\* The last call was a ufat_read_fat of a cluster of the volume in which no
\* device call failed.
ReadOk ==
  /\ phase = "mounted" /\ last.op = "read_fat"
  /\ last.arg < uf.bpb.num_clusters
  /\ \A k \in IO : last.io[k].res = 0

\* C11: on a FAT16 volume, a ufat_read_fat(index) with index < num_clusters
\* and no device failure opens block fat_start + index \div 2^(l2-1) and
\* returns 0 with the entry X written at index mod 2^(l2-1) of that block:
\* EOC when X >= 0xFFF8, BAD when 0xFFF0 <= X < 0xFFF8, else X itself.
C11_Fat16Decodes ==
  (ReadOk /\ uf.bpb.type = "FAT16")
    => /\ g.blk = uf.bpb.fat_start + last.arg \div Pow2(log2_block_size - 1)
       /\ last.ret = 0
       /\ g.ret \in Active
       /\ LET X == Entry16(uf.cache_data[g.ret], last.arg % Pow2(log2_block_size - 1))
          IN  last.out = IF X >= 65528 THEN UFAT_CLUSTER_EOC
                         ELSE IF X >= 65520 THEN UFAT_CLUSTER_BAD
                         ELSE X

C11_Witness ==
  /\ ReadOk /\ uf.bpb.type = "FAT16" /\ last.ret = 0
  /\ last.arg = 2570 /\ last.out = 4660
  /\ IsMarked(dev[20])

\* --------------------------------------------------------------- C12
\* The value written at 32-bit entry j of a block with content c.
Entry32(c, j) ==
  IF IsBoot(c) THEN [hi |-> 0, lo |-> 0]
  ELSE IF IsMarked(c)
    THEN IF 4 * j = MarkOff THEN Marks[c - MarkBase] ELSE [hi |-> 0, lo |-> 0]
  ELSE [hi |-> FillByte(c) \div 16,
        lo |-> (FillByte(c) % 16) * 16777216 + FillByte(c) * 65793]

\* C12: on a FAT32 volume, a ufat_read_fat(index) with index < num_clusters
\* and no device failure returns 0 with a result that depends only on the
\* low 28 bits L of the entry written at index: EOC when L >= 0x0FFFFFF8,
\* BAD when 0x0FFFFFF0 <= L < 0x0FFFFFF8, else L, which is below 2^28.
C12_Fat32Masks ==
  (ReadOk /\ uf.bpb.type = "FAT32")
    => /\ g.blk = uf.bpb.fat_start + last.arg \div Pow2(log2_block_size - 2)
       /\ last.ret = 0
       /\ g.ret \in Active
       /\ last.out >= 0 /\ last.out <= UFAT_CLUSTER_MASK
       /\ LET L == Entry32(uf.cache_data[g.ret], last.arg % Pow2(log2_block_size - 2)).lo
          IN  last.out = IF L >= 268435448 THEN UFAT_CLUSTER_EOC
                         ELSE IF L >= 268435440 THEN UFAT_CLUSTER_BAD
                         ELSE L

C12_Witness ==
  /\ ReadOk /\ uf.bpb.type = "FAT32" /\ last.ret = 0
  /\ last.arg = 1285 /\ last.out = 43981
  /\ IsMarked(dev[20]) /\ Marks[dev[20] - MarkBase].hi = 15

\* --------------------------------------------------------------- C13
IsPow2(x) == \E n \in 0 .. 16 : x = Pow2(n)

Log2(x) == CHOOSE n \in 0 .. 16 : x = Pow2(n)

\* Sectors of the root directory: root_entries * 32 bytes, rounded up.
RootSectors(img) ==
  (img.root_entries * 32 + img.bytes_per_sector - 1) \div img.bytes_per_sector

SectorsPerFat(img) == IF img.spf16 = 0 THEN img.spf32 ELSE img.spf16

TotalSectors(img) == IF img.total16 = 0 THEN img.total32 ELSE img.total16

\* The host block is larger than the sector and the geometry is not a whole
\* number of blocks.
Misaligned(l2, img) ==
  /\ l2 > Log2(img.bytes_per_sector)
  /\ \/ Log2(img.sectors_per_cluster) < l2 - Log2(img.bytes_per_sector)
     \/ \E x \in {img.reserved_sector_count, SectorsPerFat(img), RootSectors(img)} :
          x % Pow2(l2 - Log2(img.bytes_per_sector)) # 0

FirstFailingCheck(l2, img) ==
  IF l2 < 9 THEN -UFAT_ERR_BLOCK_SIZE
  ELSE IF ~IsPow2(img.bytes_per_sector) \/ ~IsPow2(img.sectors_per_cluster)
    THEN -UFAT_ERR_INVALID_BPB
  ELSE IF img.signature # 43605 THEN -UFAT_ERR_INVALID_BPB
  ELSE IF Misaligned(l2, img) THEN -UFAT_ERR_BLOCK_ALIGNMENT
  ELSE IF img.number_of_fats = 0 THEN -UFAT_ERR_INVALID_BPB
  ELSE 0

\* C13: parse_bpb returns the error of the first check that fails, in the
\* order block size, powers of two, signature, alignment, number of FATs,
\* and 0 for a boot sector that fails none.
C13_FirstFailingCheck ==
  last.op = "parse_bpb" => last.ret = FirstFailingCheck(log2_block_size, dev[0])

\* --------------------------------------------------------------- C14
\* The volume's size in host blocks.
TotalBlocks(l2, img) ==
  IF l2 > Log2(img.bytes_per_sector)
    THEN TotalSectors(img) \div Pow2(l2 - Log2(img.bytes_per_sector))
    ELSE TotalSectors(img) * Pow2(Log2(img.bytes_per_sector) - l2)

\* C14: the geometry of an accepted boot sector fits inside the volume:
\* cluster_start + (num_clusters - 2) * 2^log2_blocks_per_cluster is at most
\* the volume's size in blocks.
C14_GeometryFits ==
  (last.op = "parse_bpb" /\ last.ret = 0)
    => uf.bpb.cluster_start
         + (uf.bpb.num_clusters - 2) * Pow2(uf.bpb.log2_blocks_per_cluster)
       <= TotalBlocks(log2_block_size, dev[0])

\* --------------------------------------------------------------- C15
\* Byte n of the first FAT as the medium holds it.
FatByte(n) ==
  Byte(dev[uf.bpb.fat_start + n \div Pow2(log2_block_size)], n % Pow2(log2_block_size))

\* The 12-bit entry of cluster index: the low or the high 12 bits of the
\* 16-bit word at byte index * 3 / 2 of the FAT.
Fat12Entry(index) ==
  IF index % 2 = 0
    THEN (FatByte((index * 3) \div 2) + 256 * FatByte((index * 3) \div 2 + 1)) % 4096
    ELSE (FatByte((index * 3) \div 2) + 256 * FatByte((index * 3) \div 2 + 1)) \div 16

\* C15: on a FAT12 volume, a ufat_read_fat(index) with index < num_clusters
\* and no device failure returns 0 with the 12-bit entry of index: EOC when
\* it is >= 0xFF8, BAD when it is in 0xFF0..0xFF7, else the entry itself.
C15_Fat12Decodes ==
  (ReadOk /\ uf.bpb.type = "FAT12")
    => /\ last.ret = 0
       /\ last.out = IF Fat12Entry(last.arg) >= 4088 THEN UFAT_CLUSTER_EOC
                     ELSE IF Fat12Entry(last.arg) >= 4080 THEN UFAT_CLUSTER_BAD
                     ELSE Fat12Entry(last.arg)

\* --------------------------------------------------------------- C16
\* Among the device calls of the last handler, a mirror write of round i
\* comes i calls after a write of line 33 that succeeded, with its bytes.
MirrorsFollowPrimary ==
  \A k \in IO :
    (last.io[k].op = "write" /\ last.io[k].k >= 1)
      => /\ k - last.io[k].k \in IO
         /\ Primary(k - last.io[k].k)
         /\ last.io[k - last.io[k].k].res = 0
         /\ last.io[k - last.io[k].k].data = last.io[k].data

\* The flush f of slot i, dirty and in the FAT region, in the world w.
FlushInOrder(w, i, f) ==
  (/\ Present(w.uf.cache_desc[i]) /\ Dirty(w.uf.cache_desc[i])
   /\ w.uf.cache_desc[i].index >= w.uf.bpb.fat_start
   /\ w.uf.cache_desc[i].index < w.uf.bpb.fat_start + w.uf.bpb.fat_size)
    => /\ Len(f.w.io) >= 1
       /\ f.w.io[1].op = "write" /\ f.w.io[1].k = 0
       /\ f.w.io[1].blk = w.uf.cache_desc[i].index
       /\ \A k \in 2 .. Len(f.w.io) : f.w.io[k].op = "write" /\ f.w.io[k].k = k - 1
       /\ IF f.w.io[1].res # 0
            THEN /\ Len(f.w.io) = 1
                 /\ f.ret = -UFAT_ERR_IO
                 /\ f.w.uf = w.uf
                 /\ f.w.dev = w.dev
            ELSE /\ f.ret = 0
                 /\ f.w.uf.cache_desc[i] = [w.uf.cache_desc[i] EXCEPT !.flags = {"PRESENT"}]
                 /\ f.w.uf.cache_data = w.uf.cache_data

C16_Flush ==
  Live => \A i \in Active, orc \in Oracles(uf.bpb.fat_count, MaxFail) :
            FlushInOrder(World(orc), i, cache_flush(World(orc), i))

\* C16: a flush of a dirty slot of the FAT region writes the slot's block
\* first; if that write fails it writes nothing more, returns -UFAT_ERR_IO
\* and leaves the slot DIRTY; if it succeeds the mirror writes follow and the
\* flush returns 0 with the slot clean whether or not a mirror write fails.
C16_PrimaryBeforeMirrors == (Live => MirrorsFollowPrimary) /\ C16_Flush

C16_Witness ==
  /\ last.op = "sync" /\ last.ret = 0 /\ phase = "mounted"
  /\ \E k \in IO : /\ Primary(k) /\ last.io[k].res = 0
                   /\ k + 1 \in IO
                   /\ last.io[k + 1].k = 1 /\ last.io[k + 1].res # 0
                   /\ \E i \in Active : /\ uf.cache_desc[i].index = last.io[k].blk
                                        /\ uf.cache_desc[i].flags = {"PRESENT"}
                                        /\ uf.cache_data[i] = last.io[k].data

\* --------------------------------------------------------------- C17
\* This step made one ufat_cache_open call on the mounted volume, a miss
\* that failed.
FailedOpen ==
  /\ phase = "mounted" /\ g'.opens = g.opens + 1 /\ g'.ret < 0

\* The failed call read the device: its last device call is the read.
ReadIssued == \E k \in 1 .. Len(last'.io) : last'.io[k].op = "read"

\* Slot c is the slot the failed read was for: it is non-present after the
\* call, it was free or its unwritten bytes were written first, and the call
\* changed no other slot.
ChosenSlot(c) ==
  /\ ~Present(uf'.cache_desc[c])
  /\ Dirty(uf.cache_desc[c]) /\ Present(uf.cache_desc[c])
       => /\ last'.io[1] = [op |-> "write", blk |-> uf.cache_desc[c].index,
                            data |-> uf.cache_data[c], res |-> 0, k |-> 0]
          /\ dev'[uf.cache_desc[c].index] = uf.cache_data[c]
  /\ \A j \in Active \ {c} : /\ uf'.cache_desc[j] = uf.cache_desc[j]
                             /\ uf'.cache_data[j] = uf.cache_data[j]

C17_Step ==
  FailedOpen
    => /\ \A i \in Active :
            Present(uf'.cache_desc[i])
              => /\ Present(uf.cache_desc[i])
                 /\ uf'.cache_desc[i].index = uf.cache_desc[i].index
                 /\ uf'.cache_data[i] = uf.cache_data[i]
                 /\ uf'.cache_desc[i].index # g'.blk
       /\ uf'.next_seq = uf.next_seq
       /\ uf'.stat.cache_miss = uf.stat.cache_miss
       /\ uf'.stat.cache_hit = uf.stat.cache_hit
       /\ uf'.stat.read = uf.stat.read
       /\ uf'.stat.read_blocks = uf.stat.read_blocks
       /\ IF ReadIssued
            THEN /\ last'.io[Len(last'.io)].op = "read"
                 /\ last'.io[Len(last'.io)].blk = g'.blk
                 /\ last'.io[Len(last'.io)].res = g'.ret
                 /\ \E c \in Active : ChosenSlot(c)
            ELSE /\ Len(last'.io) = 1
                 /\ last'.io[1].op = "write" /\ last'.io[1].k = 0
                 /\ last'.io[1].res # 0
                 /\ \E v \in Active :
                      /\ Present(uf.cache_desc[v]) /\ Dirty(uf.cache_desc[v])
                      /\ uf.cache_desc[v].index = last'.io[1].blk
                 /\ UNCHANGED <<uf, dev>>

\* C17: a ufat_cache_open miss that fails returns a negative value and
\* leaves every PRESENT slot with the index and bytes it had, none of them
\* the requested block; a failed read leaves the slot it was for non-present
\* and next_seq, cache_miss, read and read_blocks as they were; a failed
\* flush of the victim is followed by no read and leaves the victim PRESENT
\* and DIRTY with its index and bytes.
C17_FailedOpenFrame == [][C17_Step]_vars

C17_Witness ==
  /\ phase = "mounted" /\ last.op = "cache_open" /\ last.ret < 0
  /\ Len(last.io) = 2
  /\ Primary(1) /\ last.io[1].res = 0
  /\ last.io[2].op = "read" /\ last.io[2].res # 0
  /\ \E i \in Active : ~Present(uf.cache_desc[i])
  /\ dev[last.io[1].blk] = last.io[1].data

\* --------------------------------------------------------------- C18
\* C18: with two slots or more, the slot a successful ufat_cache_open
\* returned still holds its block, bytes unchanged, after the next
\* ufat_cache_open when that one is for another block.
C18_Step ==
  (/\ phase = "mounted" /\ uf.cache_size >= 2
   /\ g'.opens = g.opens + 1 /\ g.ret >= 0 /\ g'.blk # g.blk)
    => /\ IsHit(uf.cache_desc[g.ret], g.blk)
       /\ IsHit(uf'.cache_desc[g.ret], g.blk)
       /\ uf'.cache_data[g.ret] = uf.cache_data[g.ret]
       /\ g'.ret # g.ret

C18_LastOpenedSurvives == [][C18_Step]_vars

C18_Witness ==
  /\ phase = "mounted" /\ uf.cache_size >= 2
  /\ g.full_miss /\ g.ret >= 0 /\ g.opens = g.opens_ok /\ g.opens >= 4
  /\ \E j \in Active \ {g.ret} :
       Present(uf.cache_desc[j]) /\ g.touch[j] = g.opens_ok - 1

\* --------------------------------------------------------------- C19
\* The volume u but for the seq of slot h, next_seq and cache_hit.
HitFrame(u, h) ==
  [u EXCEPT !.cache_desc[h].seq = 0, !.next_seq = 0, !.stat.cache_hit = 0]

\* C19: a ufat_cache_open of a block some PRESENT slot holds returns that
\* slot, makes no device call and changes only the slot's seq (to the old
\* next_seq), next_seq and cache_hit (each one more): flags, indices and
\* buffers of all slots, the other counters and the medium stay as they were.
C19_Step ==
  (phase = "mounted" /\ g'.opens = g.opens + 1 /\ HitSlots(g'.blk) # {})
    => /\ g'.ret \in HitSlots(g'.blk)
       /\ last'.io = <<>>
       /\ dev' = dev
       /\ HitFrame(uf', g'.ret) = HitFrame(uf, g'.ret)
       /\ uf'.cache_desc[g'.ret].seq = uf.next_seq
       /\ uf'.next_seq = U32(uf.next_seq + 1)
       /\ uf'.stat.cache_hit = U32(uf.stat.cache_hit + 1)

C19_HitChangesOnlySeq == [][C19_Step]_vars

C19_Witness ==
  /\ phase = "mounted" /\ last.op = "cache_open" /\ last.ret >= 0
  /\ last.io = <<>> /\ uf.stat.cache_hit >= 1
  /\ uf.cache_desc[last.ret].flags = {"PRESENT", "DIRTY"}
  /\ uf.cache_desc[last.ret].index = last.arg
  /\ \E j \in Active \ {last.ret} : Dirty(uf.cache_desc[j])

\* --------------------------------------------------------------- C20
\* C20: on a FAT16 or FAT32 volume, the block a ufat_read_fat(index) with
\* index < num_clusters opens lies in the first FAT:
\* fat_start <= block < fat_start + fat_size.
C20_FatBlockInRegion ==
  (/\ phase = "mounted" /\ last.op = "read_fat"
   /\ uf.bpb.type \in {"FAT16", "FAT32"}
   /\ last.arg < uf.bpb.num_clusters)
    => /\ g.blk >= uf.bpb.fat_start
       /\ g.blk < uf.bpb.fat_start + uf.bpb.fat_size

====
